---- MODULE Spec2Model ----
(***************************************************************************)
(* BentoPose (js/main.js): a Collada model is loaded asynchronously, its   *)
(* skeleton is shown as clickable markers (boneDots), a bone can be        *)
(* selected and posed, and the pose is exported as a one-frame BVH text.   *)
(*                                                                         *)
(* Text is modelled as TLA+ strings, character for character.  A number    *)
(* is an integer count of millionths (1.0 is 1000000), which is exactly    *)
(* what toFixed(6) can print.  A bone is a pair <<l, i>>: node i of the    *)
(* scene graph delivered by load l; node 0 is the scene group itself.      *)
(***************************************************************************)
EXTENDS Integers, Sequences, FiniteSets, TLC

VARIABLES
    models,         \* load id -> the scene graph that load delivered (collada.scene)
    pose,           \* bone -> [position, quaternion, scale]: the mutable local transform
    currentModel,   \* 0 (undefined) or the load id of the model shown
    boneDots,       \* the markers, in creation order: [bone, color]
    boneLines,      \* the parent-child lines, in creation order: the child bone of each
    selectedBone,   \* Null or a bone
    transformControls, \* [mode, object]: the gizmo's mode and the bone it is attached to
    modelSelect,    \* the value of the #modelSelect element: the URL to load
    pending,        \* the loads in flight: [id, url]
    nLoads,         \* loader.load calls made so far
    nDrags,         \* gizmo drags made so far
    scene,          \* [models, dots, lines]: what has been added to the THREE scene
    offered,        \* Null or the file offered for download last: [download, type, data]
    errors,         \* the kinds of exception thrown out of a handler so far
    lastCall        \* how exportToBVH ended if it ran last: "return" without a file,
                    \* "download" with one, "download again" when the handler before
                    \* it was exportToBVH with a file too; "other" after any other
                    \* handler

vars == <<models, pose, currentModel, boneDots, boneLines, selectedBone,
          transformControls, modelSelect, pending, nLoads, nDrags, scene,
          offered, errors, lastCall>>

(* Bounds of the model. *)
MaxNodes == 3
MaxLoads == 2
MaxDrags == 1

Null == <<>>
NoParent == 0 - 1

--------------------------------------------------------------------------
(* Strings, as the JavaScript String methods used by the exporter compute  *)
(* them.                                                                   *)

At(s, i) == SubSeq(s, i, i)

RECURSIVE repeat(_, _)
repeat(s, count) == IF count <= 0 THEN "" ELSE s \o repeat(s, count - 1)

StartsWithAt(s, pat, i) ==
    /\ i + Len(pat) - 1 <= Len(s)
    /\ SubSeq(s, i, i + Len(pat) - 1) = pat

(* String.prototype.indexOf, counted from 1; 0 when pat does not occur. *)
IndexOf(s, pat) ==
    LET hits == {i \in 1..(Len(s) - Len(pat) + 1) : StartsWithAt(s, pat, i)}
    IN IF hits = {} THEN 0 ELSE CHOOSE i \in hits : \A j \in hits : i <= j

(* String.prototype.replace with a string pattern: the first occurrence    *)
(* only, and the string itself when there is none.                         *)
replace(s, pat, rep) ==
    LET i == IndexOf(s, pat) IN
    IF i = 0 THEN s
    ELSE SubSeq(s, 1, i - 1) \o rep \o SubSeq(s, i + Len(pat), Len(s))

IsWhiteSpace(c) == c = " " \/ c = "\n" \/ c = "\t"

(* String.prototype.trim: white space is removed from both ends. *)
trim(s) ==
    LET inked == {i \in 1..Len(s) : ~IsWhiteSpace(At(s, i))}
    IN IF inked = {} THEN ""
       ELSE SubSeq(s, CHOOSE i \in inked : \A j \in inked : i <= j,
                      CHOOSE i \in inked : \A j \in inked : i >= j)

RECURSIVE NatToString(_)
NatToString(n) ==
    IF n < 10 THEN At("0123456789", n + 1)
    ELSE NatToString(n \div 10) \o At("0123456789", (n % 10) + 1)

RECURSIVE PadStart(_, _)
PadStart(s, width) == IF Len(s) >= width THEN s ELSE PadStart("0" \o s, width)

(* Number.prototype.toFixed(6) of v millionths: an optional minus sign,    *)
(* the integer part, a point and six digits; zero prints without a sign.   *)
toFixed(v) ==
    LET a == IF v < 0 THEN 0 - v ELSE v IN
    (IF v < 0 THEN "-" ELSE "")
        \o NatToString(a \div 1000000) \o "." \o PadStart(NatToString(a % 1000000), 6)

--------------------------------------------------------------------------
(* The scene graph of a loaded model.  A model m is a record               *)
(*   n          the number of nodes below the scene group (node 0)         *)
(*   parent     parent[i]: 0, a node before i, or NoParent (detached)      *)
(*   isBone     isBone[i]                                                  *)
(*   name       name[i], "" when the file gave the node no name            *)
(*   position, quaternion   the rest pose of node i                        *)
(*   meshes     the skeleton.bones list of each skinned mesh, in the order *)
(*              Object3D.traverse meets the meshes                         *)
(* children are kept in ascending node order.                              *)

parentOf(ms, o) ==
    IF o = Null \/ o[2] = 0 \/ ms[o[1]].parent[o[2]] = NoParent THEN Null
    ELSE <<o[1], ms[o[1]].parent[o[2]]>>

isBone(ms, o) == o # Null /\ o[2] # 0 /\ ms[o[1]].isBone[o[2]]

childrenOf(ms, o) ==
    LET l == o[1]
        IsChild(j) == ms[l].parent[j] = o[2]
    IN [k \in DOMAIN SelectSeq([j \in 1..ms[l].n |-> j], IsChild) |->
            <<l, SelectSeq([j \in 1..ms[l].n |-> j], IsChild)[k]>>]

(* Object3D.id: a number no two objects share. *)
idOf(o) == 10 * o[1] + o[2]

nameOf(ms, o) == ms[o[1]].name[o[2]]

(* Array.prototype.filter and Array.prototype.find. *)
filterBones(ms, nodes) == LET Keep(c) == isBone(ms, c) IN SelectSeq(nodes, Keep)

RECURSIVE findRoot(_, _)
findRoot(ms, bones) ==
    IF bones = <<>> THEN Null
    ELSE IF parentOf(ms, Head(bones)) = Null \/ ~isBone(ms, parentOf(ms, Head(bones)))
         THEN Head(bones)
    ELSE findRoot(ms, Tail(bones))

--------------------------------------------------------------------------
(* The BVH exporter. *)

jointLabel(ms, bone) ==
    IF nameOf(ms, bone) # "" THEN nameOf(ms, bone) ELSE "Bone_" \o NatToString(idOf(bone))

RECURSIVE buildBVHHierarchy(_, _, _, _)
RECURSIVE buildChildren(_, _, _, _)
buildChildren(ms, ps, children, level) ==
    IF children = <<>> THEN ""
    ELSE buildBVHHierarchy(ms, ps, Head(children), level)
            \o buildChildren(ms, ps, Tail(children), level)

(* buildBVHHierarchy recursing into every child, bone or not. *)
buildBVHHierarchy_AllChildren(ms, ps, bone, level) ==
    LET indent == repeat("  ", level)
        p == ps[bone].position
        children == childrenOf(ms, bone)
        str == indent \o "JOINT " \o jointLabel(ms, bone) \o "\n"
        \o indent \o "{\n"
        \o indent \o "  OFFSET " \o toFixed(p[1]) \o " " \o toFixed(p[2])
                  \o " " \o toFixed(p[3]) \o "\n"
        \o indent
        \o "  CHANNELS 6 Xposition Yposition Zposition Xrotation Yrotation Zrotation\n"
        \o (IF Len(children) > 0
            THEN buildChildren(ms, ps, children, level + 1)
            ELSE indent \o "  End Site\n"
              \o indent \o "  {\n"
              \o indent \o "    OFFSET 0.0 0.0 0.0\n"
              \o indent \o "  }\n")
        \o indent \o "}\n"
    IN replace(str, "HIERARCHY\nJOINT", "HIERARCHY\nROOT")

(* buildBVHHierarchy closing every joint with an End Site, leaf or not. *)
buildBVHHierarchy_EndSiteAlways(ms, ps, bone, level) ==
    LET indent == repeat("  ", level)
        p == ps[bone].position
        children == filterBones(ms, childrenOf(ms, bone))
        str == indent \o "JOINT " \o jointLabel(ms, bone) \o "\n"
        \o indent \o "{\n"
        \o indent \o "  OFFSET " \o toFixed(p[1]) \o " " \o toFixed(p[2])
                  \o " " \o toFixed(p[3]) \o "\n"
        \o indent
        \o "  CHANNELS 6 Xposition Yposition Zposition Xrotation Yrotation Zrotation\n"
        \o buildChildren(ms, ps, children, level + 1)
        \o indent \o "  End Site\n"
        \o indent \o "  {\n"
        \o indent \o "    OFFSET 0.0 0.0 0.0\n"
        \o indent \o "  }\n"
        \o indent \o "}\n"
    IN replace(str, "HIERARCHY\nJOINT", "HIERARCHY\nROOT")

buildBVHHierarchy(ms, ps, bone, level) ==
    LET indent == repeat("  ", level)
        p == ps[bone].position
        children == filterBones(ms, childrenOf(ms, bone))
        str == indent \o "JOINT " \o jointLabel(ms, bone) \o "\n"
            \o indent \o "{\n"
            \o indent \o "  OFFSET " \o toFixed(p[1]) \o " " \o toFixed(p[2])
                      \o " " \o toFixed(p[3]) \o "\n"
            \o indent
            \o "  CHANNELS 6 Xposition Yposition Zposition Xrotation Yrotation Zrotation\n"
            \o (IF Len(children) > 0
                THEN buildChildren(ms, ps, children, level + 1)
                ELSE indent \o "  End Site\n"
                  \o indent \o "  {\n"
                  \o indent \o "    OFFSET 0.0 0.0 0.0\n"
                  \o indent \o "  }\n")
            \o indent \o "}\n"
    IN replace(str, "HIERARCHY\nJOINT", "HIERARCHY\nROOT")

(* new THREE.Euler().setFromQuaternion(q, 'XYZ') followed by radToDeg, on  *)
(* the four unit quaternions the model uses (identity and the half turns   *)
(* about X, Y and Z), in millionths of a degree.  atan2(-0, -1) is -pi, so *)
(* a half turn comes out as -180; atan2(-0, 1) is -0, printed as 0.        *)
eulerDegrees(q) ==
    CASE q = <<0, 0, 0, 1>> -> <<0, 0, 0>>
      [] q = <<1, 0, 0, 0>> -> <<0 - 180000000, 0, 0>>
      [] q = <<0, 1, 0, 0>> -> <<0 - 180000000, 0, 0 - 180000000>>
      [] q = <<0, 0, 1, 0>> -> <<0, 0, 0 - 180000000>>

motionOfBone(ps, bone) ==
    LET pos == ps[bone].position
        rot == eulerDegrees(ps[bone].quaternion)
        posValues == toFixed(pos[1]) \o " " \o toFixed(pos[2]) \o " " \o toFixed(pos[3])
        rotValues == toFixed(rot[1]) \o " " \o toFixed(rot[2]) \o " " \o toFixed(rot[3])
    IN posValues \o " " \o rotValues \o " "

RECURSIVE motionOfBones(_, _)
motionOfBones(ps, bones) ==
    IF bones = <<>> THEN ""
    ELSE motionOfBone(ps, Head(bones)) \o motionOfBones(ps, Tail(bones))

(* buildBVHMotion without the trim. *)
buildBVHMotion_NoTrim(ps, bones) == motionOfBones(ps, bones) \o "\n"

buildBVHMotion(ps, bones) == trim(motionOfBones(ps, bones)) \o "\n"

(* The helper of the first version of the program; nothing calls it. *)
fixRootBone(bvhString) == replace(bvhString, "HIERARCHY\nJOINT", "HIERARCHY\nROOT")

bonesOf(dots) == [k \in DOMAIN dots |-> dots[k].bone]

(* The traversal root taken to be the first bone of the set. *)
rootBone_First(ms, bones) == bones[1]

rootBone(ms, bones) ==
    IF findRoot(ms, bones) # Null THEN findRoot(ms, bones) ELSE bones[1]

(* The text exportToBVH builds for a non-empty bone set. *)
bvhString(ms, ps, bones) ==
    "HIERARCHY\n"
        \o buildBVHHierarchy(ms, ps, rootBone(ms, bones), 0)
        \o "MOTION\n"
        \o "Frames: 1\n"
        \o "Frame Time: 0.033333\n"
        \o buildBVHMotion(ps, bones)

--------------------------------------------------------------------------
(* The models a load can deliver. *)

Vectors == << <<0, 0, 0>>, <<1000000, 0, 0 - 2500000>>, <<0, 1000000, 0>>,
              <<1000000, 0, 0>> >>

Quaternions == << <<0, 0, 0, 1>>, <<1, 0, 0, 0>>, <<0, 1, 0, 0>>, <<0, 0, 1, 0>> >>

Pick(table, k) == table[(k % Len(table)) + 1]

(* The name the file gives node i: the second node has none, the odd ones  *)
(* share one.                                                              *)
NodeName(i) == IF i = 2 THEN "" ELSE IF i % 2 = 1 THEN "R" ELSE "A"

Parents(n) ==
    {p \in [1..n -> {NoParent} \cup (0..(n - 1))] : \A i \in 1..n : p[i] < i}

(* The sequences without repetition over S, of every length. *)
Arrangements(S) ==
    UNION {{q \in [1..k -> S] : \A a, b \in 1..k : a # b => q[a] # q[b]} :
              k \in 0..Cardinality(S)}

(* Every model of MaxNodes nodes with one skinned mesh: any forest, any    *)
(* choice of which nodes are bones (only a bone may be detached from the   *)
(* scene), and as skeleton.bones any arrangement of bones.                 *)
ModelsOver(p) ==
    UNION {{[n |-> MaxNodes, parent |-> p, isBone |-> b,
             name |-> [i \in 1..MaxNodes |-> NodeName(i)],
             position |-> [i \in 1..MaxNodes |-> Pick(Vectors, i - 1)],
             quaternion |-> [i \in 1..MaxNodes |-> Pick(Quaternions, i - 1)],
             meshes |-> <<q>>] : q \in Arrangements({i \in 1..MaxNodes : b[i]})} :
           b \in {f \in [1..MaxNodes -> BOOLEAN] :
                     \A i \in 1..MaxNodes : p[i] = NoParent => f[i]}}

AllModels == UNION {ModelsOver(p) : p \in Parents(MaxNodes)}

(* The files behind the options of #modelSelect: a root bone R with one    *)
(* child A, listed root first; a model whose skeleton lists the child      *)
(* before its parent and has a mesh among the children of a bone; and a    *)
(* model with no skinned mesh.                                             *)
Urls == <<"pair.dae", "limb.dae", "static.dae">>

Catalogue(url) ==
    CASE url = "pair.dae" ->
            [n |-> 2, parent |-> <<0, 1>>, isBone |-> <<TRUE, TRUE>>,
             name |-> <<"R", "A">>,
             position |-> <<Vectors[1], Vectors[4]>>,
             quaternion |-> <<Quaternions[1], Quaternions[1]>>,
             meshes |-> << <<1, 2>> >>]
      [] url = "limb.dae" ->
            [n |-> 3, parent |-> <<0, 1, 1>>, isBone |-> <<TRUE, FALSE, TRUE>>,
             name |-> <<"Hip", "Skin", "">>,
             position |-> <<Vectors[2], Vectors[1], Vectors[4]>>,
             quaternion |-> <<Quaternions[2], Quaternions[1], Quaternions[1]>>,
             meshes |-> << <<3, 1>> >>]
      [] url = "static.dae" ->
            [n |-> 1, parent |-> <<0>>, isBone |-> <<FALSE>>,
             name |-> <<"Prop">>,
             position |-> <<Vectors[1]>>,
             quaternion |-> <<Quaternions[1]>>,
             meshes |-> <<>>]

restPose(l, m) ==
    [b \in {l} \X (1..m.n) |->
        [position |-> m.position[b[2]], quaternion |-> m.quaternion[b[2]],
         scale |-> 1000000]]

--------------------------------------------------------------------------
(* Loading and showing a model. *)

(* visualizeSkeleton: one white marker per bone of skeleton.bones, and one *)
(* line per bone whose parent is a bone.  shown is [dots, lines].          *)
RECURSIVE visualizeBones(_, _, _)
visualizeBones(ms, shown, bones) ==
    IF bones = <<>> THEN shown
    ELSE LET bone == Head(bones)
             dot == [bone |-> bone, color |-> "ffffff"]
         IN visualizeBones(ms,
                [dots |-> Append(shown.dots, dot),
                 lines |-> IF parentOf(ms, bone) # Null /\ isBone(ms, parentOf(ms, bone))
                           THEN Append(shown.lines, bone) ELSE shown.lines],
                Tail(bones))

visualizeSkeleton(ms, shown, l, skinnedMesh) ==
    visualizeBones(ms, shown, [k \in DOMAIN skinnedMesh |-> <<l, skinnedMesh[k]>>])

(* currentModel.traverse: every skinned mesh of the model, in order. *)
RECURSIVE traverse(_, _, _, _)
traverse(ms, shown, l, meshes) ==
    IF meshes = <<>> THEN shown
    ELSE traverse(ms, visualizeSkeleton(ms, shown, l, Head(meshes)), l, Tail(meshes))

Init ==
    /\ models = <<>>
    /\ pose = <<>>
    /\ currentModel = 0
    /\ boneDots = <<>>
    /\ boneLines = <<>>
    /\ selectedBone = Null
    /\ transformControls = [mode |-> "translate", object |-> Null]
    /\ modelSelect \in {Urls[k] : k \in DOMAIN Urls}
    /\ pending = {[id |-> 1, url |-> modelSelect]}
    /\ nLoads = 1
    /\ nDrags = 0
    /\ scene = [models |-> {}, dots |-> 0]
    /\ offered = Null
    /\ errors = {}
    /\ lastCall = "other"

(* loadModel: the shown model, the markers and the lines are dropped when  *)
(* a model is shown, and a load of the selected URL is started.            *)
loadModel ==
    /\ nLoads < MaxLoads
    /\ IF currentModel # 0
       THEN /\ scene' = [scene EXCEPT !.models = @ \ {currentModel}]
            /\ boneDots' = <<>>
            /\ boneLines' = <<>>
       ELSE UNCHANGED <<scene, boneDots, boneLines>>
    /\ pending' = pending \cup {[id |-> nLoads + 1, url |-> modelSelect']}
    /\ nLoads' = nLoads + 1
    /\ lastCall' = "other"
    /\ UNCHANGED <<models, pose, currentModel, selectedBone, transformControls,
                   nDrags, offered, errors>>

(* The change event of #modelSelect. *)
ChangeModel ==
    \E k \in DOMAIN Urls :
        /\ Urls[k] # modelSelect
        /\ modelSelect' = Urls[k]
        /\ loadModel

(* The load callback of loader.load, for a load in flight. *)
onLoad(load, m) ==
    LET ms == models @@ (load.id :> m)
        shown == traverse(ms, [dots |-> boneDots, lines |-> boneLines], load.id, m.meshes)
    IN /\ models' = ms
       /\ pose' = pose @@ restPose(load.id, m)
       /\ currentModel' = load.id
       /\ boneDots' = shown.dots
       /\ boneLines' = shown.lines
       /\ scene' = [models |-> scene.models \cup {load.id},
                    dots |-> scene.dots + (Len(shown.dots) - Len(boneDots))]
       /\ pending' = pending \ {load}
       /\ lastCall' = "other"
       /\ UNCHANGED <<selectedBone, transformControls, modelSelect, nLoads, nDrags,
                      offered, errors>>

LoadComplete == \E load \in pending : onLoad(load, Catalogue(load.url))

(* The error callback of loader.load: the error is written to the console. *)
LoadError ==
    \E load \in pending :
        /\ pending' = pending \ {load}
        /\ lastCall' = "other"
        /\ UNCHANGED <<models, pose, currentModel, boneDots, boneLines, selectedBone,
                       transformControls, modelSelect, nLoads, nDrags, scene, offered,
                       errors>>

--------------------------------------------------------------------------
(* Selecting and posing a bone. *)

RECURSIVE findDot(_, _, _)
findDot(dots, bone, k) ==
    IF k > Len(dots) THEN 0
    ELSE IF dots[k].bone = bone THEN k
    ELSE findDot(dots, bone, k + 1)

(* selectBone: the marker of the bone selected before turns white, the     *)
(* marker of the new bone green, and the gizmo is attached.  A find that   *)
(* matches no marker yields undefined, and reading .material of it throws  *)
(* before anything is changed.                                             *)
selectBone(bone) ==
    IF selectedBone # Null /\ findDot(boneDots, selectedBone, 1) = 0
    THEN /\ errors' = errors \cup {"TypeError"}
         /\ lastCall' = "other"
         /\ UNCHANGED <<models, pose, currentModel, boneDots, boneLines, selectedBone,
                        transformControls, modelSelect, pending, nLoads, nDrags, scene,
                        offered>>
    ELSE LET cleared == IF selectedBone = Null THEN boneDots
                        ELSE [boneDots EXCEPT ![findDot(boneDots, selectedBone, 1)].color =
                                                    "ffffff"]
         IN /\ selectedBone' = bone
            /\ boneDots' = [cleared EXCEPT ![findDot(cleared, bone, 1)].color = "00ff00"]
            /\ transformControls' = [transformControls EXCEPT !.object = bone]
            /\ lastCall' = "other"
            /\ UNCHANGED <<models, pose, currentModel, boneLines, modelSelect, pending,
                           nLoads, nDrags, scene, offered, errors>>

(* The click handler of the canvas: the ray hits a marker, or nothing. *)
ClickDot == \E k \in DOMAIN boneDots : selectBone(boneDots[k].bone)

ClickMiss ==
    /\ lastCall' = "other"
    /\ UNCHANGED <<models, pose, currentModel, boneDots, boneLines, selectedBone,
                   transformControls, modelSelect, pending, nLoads, nDrags, scene,
                   offered, errors>>

(* What TransformControls does to the attached bone when its gizmo is      *)
(* dragged, by mode.                                                       *)
Drag ==
    /\ transformControls.object # Null
    /\ nDrags < MaxDrags
    /\ nDrags' = nDrags + 1
    /\ LET bone == transformControls.object IN
       \/ /\ transformControls.mode = "translate"
          /\ \E v \in {Vectors[1], Vectors[2]} :
                /\ v # pose[bone].position
                /\ pose' = [pose EXCEPT ![bone].position = v]
       \/ /\ transformControls.mode = "rotate"
          /\ \E q \in {Quaternions[1], Quaternions[3]} :
                /\ q # pose[bone].quaternion
                /\ pose' = [pose EXCEPT ![bone].quaternion = q]
       \/ /\ transformControls.mode = "scale"
          /\ pose' = [pose EXCEPT ![bone].scale = 2 * @]
    /\ lastCall' = "other"
    /\ UNCHANGED <<models, currentModel, boneDots, boneLines, selectedBone,
                   transformControls, modelSelect, pending, nLoads, scene, offered,
                   errors>>

--------------------------------------------------------------------------
(* Exporting. *)

(* Blob, createObjectURL, the link appended, clicked and removed, and      *)
(* revokeObjectURL: what stays is the file offered to the user.            *)
download(filename, type, data) ==
    offered' = [download |-> filename, type |-> type, data |-> data]

(* exportToBVH without its early return: with no bone, find yields          *)
(* undefined, bones[0] is undefined, and buildBVHHierarchy throws on it.   *)
exportToBVH_NoGuard ==
    LET bones == bonesOf(boneDots) IN
    IF Len(bones) = 0
    THEN /\ errors' = errors \cup {"TypeError"}
         /\ lastCall' = "other"
         /\ UNCHANGED <<models, pose, currentModel, boneDots, boneLines, selectedBone,
                        transformControls, modelSelect, pending, nLoads, nDrags, scene,
                        offered>>
    ELSE /\ download("animation.bvh", "text/plain", bvhString(models, pose, bones))
         /\ lastCall' = IF lastCall \in {"download", "download again"}
                        THEN "download again" ELSE "download"
         /\ UNCHANGED <<models, pose, currentModel, boneDots, boneLines, selectedBone,
                        transformControls, modelSelect, pending, nLoads, nDrags, scene,
                        errors>>

(* exportToBVH with a text that outlives the call: each export is appended *)
(* to the text of the one before.                                          *)
exportToBVH_Carry ==
    LET bones == bonesOf(boneDots)
        kept == IF offered # Null /\ offered.download = "animation.bvh"
                THEN offered.data ELSE ""
    IN
    IF Len(bones) = 0
    THEN /\ lastCall' = "return"
         /\ UNCHANGED <<models, pose, currentModel, boneDots, boneLines, selectedBone,
                        transformControls, modelSelect, pending, nLoads, nDrags, scene,
                        offered, errors>>
    ELSE /\ download("animation.bvh", "text/plain",
                     kept \o bvhString(models, pose, bones))
         /\ lastCall' = IF lastCall \in {"download", "download again"}
                        THEN "download again" ELSE "download"
         /\ UNCHANGED <<models, pose, currentModel, boneDots, boneLines, selectedBone,
                        transformControls, modelSelect, pending, nLoads, nDrags, scene,
                        errors>>

exportToBVH ==
    LET bones == bonesOf(boneDots) IN
    IF Len(bones) = 0
    THEN /\ lastCall' = "return"
         /\ UNCHANGED <<models, pose, currentModel, boneDots, boneLines, selectedBone,
                        transformControls, modelSelect, pending, nLoads, nDrags, scene,
                        offered, errors>>
    ELSE /\ download("animation.bvh", "text/plain", bvhString(models, pose, bones))
         /\ lastCall' = IF lastCall \in {"download", "download again"}
                        THEN "download again" ELSE "download"
         /\ UNCHANGED <<models, pose, currentModel, boneDots, boneLines, selectedBone,
                        transformControls, modelSelect, pending, nLoads, nDrags, scene,
                        errors>>

(* exportToDAE: ColladaExporter.parse reads the model it is given, and     *)
(* throws on undefined; its output is not looked into.                     *)
exportToDAE ==
    IF currentModel = 0
    THEN /\ errors' = errors \cup {"TypeError"}
         /\ lastCall' = "other"
         /\ UNCHANGED <<models, pose, currentModel, boneDots, boneLines, selectedBone,
                        transformControls, modelSelect, pending, nLoads, nDrags, scene,
                        offered>>
    ELSE /\ download("deformed_model.dae", "text/xml",
                     "<COLLADA " \o NatToString(currentModel) \o ">")
         /\ lastCall' = "other"
         /\ UNCHANGED <<models, pose, currentModel, boneDots, boneLines, selectedBone,
                        transformControls, modelSelect, pending, nLoads, nDrags, scene,
                        errors>>

SaveBVHClick == exportToBVH

SaveDAEClick == exportToDAE

Keys == {"r", "s", "t", "b", "x"}

(* The keydown handler, for event.key.toLowerCase() = key. *)
keydown(key) ==
    IF selectedBone = Null /\ key # "b"
    THEN /\ lastCall' = "other"
         /\ UNCHANGED <<models, pose, currentModel, boneDots, boneLines, selectedBone,
                        transformControls, modelSelect, pending, nLoads, nDrags, scene,
                        offered, errors>>
    ELSE IF key = "b" THEN exportToBVH
    ELSE /\ transformControls' =
                [transformControls EXCEPT !.mode =
                    CASE key = "r" -> "rotate"
                      [] key = "s" -> "scale"
                      [] key = "t" -> "translate"
                      [] OTHER -> @]
         /\ lastCall' = "other"
         /\ UNCHANGED <<models, pose, currentModel, boneDots, boneLines, selectedBone,
                        modelSelect, pending, nLoads, nDrags, scene, offered, errors>>

KeyDown == \E key \in Keys : keydown(key)

Next ==
    \/ ChangeModel
    \/ LoadComplete
    \/ LoadError
    \/ ClickDot
    \/ ClickMiss
    \/ Drag
    \/ KeyDown
    \/ SaveBVHClick
    \/ SaveDAEClick

Spec == Init /\ [][Next]_vars

(* A session in which the model selection is never changed. *)
NextPose ==
    \/ LoadComplete
    \/ LoadError
    \/ ClickDot
    \/ ClickMiss
    \/ Drag
    \/ KeyDown
    \/ SaveBVHClick
    \/ SaveDAEClick

SpecPose == Init /\ [][NextPose]_vars

--------------------------------------------------------------------------
(* The exporter on its own: any model of AllModels has just been loaded    *)
(* and shown, and the export is asked for once.                            *)

InitExport ==
    \E m \in AllModels :
        LET ms == 1 :> m
            shown == traverse(ms, [dots |-> <<>>, lines |-> <<>>], 1, m.meshes)
        IN /\ models = ms
           /\ pose = restPose(1, m)
           /\ currentModel = 1
           /\ boneDots = shown.dots
           /\ boneLines = shown.lines
           /\ selectedBone = Null
           /\ transformControls = [mode |-> "translate", object |-> Null]
           /\ modelSelect = Urls[1]
           /\ pending = {}
           /\ nLoads = 1
           /\ nDrags = 0
           /\ scene = [models |-> {1}, dots |-> Len(shown.dots)]
           /\ offered = Null
           /\ errors = {}
           /\ lastCall = "other"

ExportOnce ==
    /\ offered = Null
    /\ exportToBVH

NextExport == ExportOnce

SpecExport == InitExport /\ [][NextExport]_vars

--------------------------------------------------------------------------
(* Reading a document back: its lines, the indentation of a line, the      *)
(* joints of its HIERARCHY section.                                        *)

(* String.prototype.split on a one-character separator. *)
SplitOn(s, c) ==
    LET cuts == {i \in 1..Len(s) : At(s, i) = c}
        n == Cardinality(cuts)
        cut(k) == IF k = 0 THEN 0
                  ELSE IF k = n + 1 THEN Len(s) + 1
                  ELSE CHOOSE i \in cuts : Cardinality({j \in cuts : j < i}) = k - 1
    IN [k \in 1..(n + 1) |-> SubSeq(s, cut(k - 1) + 1, cut(k) - 1)]

(* The number of spaces a line starts with, and the line without them. *)
IndentOf(line) ==
    LET inked == {i \in 1..Len(line) : At(line, i) # " "}
    IN IF inked = {} THEN Len(line)
       ELSE (CHOOSE i \in inked : \A j \in inked : i <= j) - 1

TextOf(line) == SubSeq(line, IndentOf(line) + 1, Len(line))

StartsWith(s, pat) == StartsWithAt(s, pat, 1)

(* The elements of seq that satisfy Test, as the ascending sequence of     *)
(* their indices.                                                          *)
IndicesWhere(seq, Test(_)) ==
    LET hits == {i \in DOMAIN seq : Test(seq[i])}
    IN [k \in 1..Cardinality(hits) |->
            CHOOSE i \in hits : Cardinality({j \in hits : j < i}) = k - 1]

Exported == offered # Null /\ offered.download = "animation.bvh"

DocLines == SplitOn(offered.data, "\n")

SecondLine ==
    LET rest == SubSeq(offered.data, IndexOf(offered.data, "\n") + 1, Len(offered.data))
    IN SubSeq(rest, 1, IndexOf(rest, "\n") - 1)

boneSet == bonesOf(boneDots)

(* The lines of the HIERARCHY section: after the header, before MOTION. *)
HierarchyOf(lines) ==
    SubSeq(lines, 2, (CHOOSE i \in DOMAIN lines : lines[i] = "MOTION") - 1)

HierarchyLines == HierarchyOf(DocLines)

IsHeader(line) == StartsWith(TextOf(line), "JOINT ") \/ StartsWith(TextOf(line), "ROOT ")

HeadersOf(lines) == IndicesWhere(lines, IsHeader)

(* The name a joint header line gives: what follows its keyword. *)
HeaderName(line) ==
    LET t == TextOf(line) IN SubSeq(t, IndexOf(t, " ") + 1, Len(t))

(* The line that closes the block opened at line i: the first later line   *)
(* with the same indentation that is a closing brace; 0 if there is none.  *)
CloseOf(lines, i) ==
    LET after == {j \in (i + 1)..Len(lines) : IndentOf(lines[j]) <= IndentOf(lines[i])}
    IN IF after = {} THEN 0
       ELSE LET j == CHOOSE a \in after : \A b \in after : a <= b
            IN IF lines[j] = repeat(" ", IndentOf(lines[i])) \o "}" THEN j ELSE 0

--------------------------------------------------------------------------
(* The bone tree, stated on its own: the chain of bones from the           *)
(* traversal root down to a bone, and the pre-order that follows the       *)
(* children in their order.                                                *)

RECURSIVE PathTo(_, _, _)
PathTo(ms, root, b) ==
    IF b = root THEN <<root>>
    ELSE IF b = Null \/ ~isBone(ms, b) THEN <<>>
    ELSE LET above == PathTo(ms, root, parentOf(ms, b))
         IN IF above = <<>> THEN <<>> ELSE Append(above, b)

Reachable(ms, root) ==
    {b \in {root[1]} \X (1..ms[root[1]].n) : PathTo(ms, root, b) # <<>>}

(* a comes before b in pre-order: a is an ancestor of b, or where their    *)
(* chains part, a's side is the earlier child.                             *)
Precedes(ms, root, a, b) ==
    LET pa == PathTo(ms, root, a)
        pb == PathTo(ms, root, b)
        differ == {i \in 1..Len(pa) : i > Len(pb) \/ pa[i] # pb[i]}
    IN /\ a # b
       /\ \/ differ = {}
          \/ LET i == CHOOSE d \in differ : \A e \in differ : d <= e
             IN i <= Len(pb) /\ pa[i][2] < pb[i][2]

PreOrder(ms, root) ==
    LET R == Reachable(ms, root)
    IN [k \in 1..Cardinality(R) |->
            CHOOSE b \in R : Cardinality({a \in R : Precedes(ms, root, a, b)}) = k - 1]

DepthOf(ms, root, b) == Len(PathTo(ms, root, b)) - 1

IsLeaf(ms, b) ==
    ~\E j \in 1..ms[b[1]].n : ms[b[1]].parent[j] = b[2] /\ ms[b[1]].isBone[j]

(* The first bone of the set with no parent or a parent that is no bone,   *)
(* and the first bone of the set if there is none.                         *)
ExpectedRoot ==
    LET rootLike == {k \in DOMAIN boneSet :
                        \/ models[boneSet[k][1]].parent[boneSet[k][2]] = NoParent
                        \/ models[boneSet[k][1]].parent[boneSet[k][2]] = 0
                        \/ ~models[boneSet[k][1]].isBone[models[boneSet[k][1]].parent[boneSet[k][2]]]}
    IN IF rootLike = {} THEN boneSet[1]
       ELSE boneSet[CHOOSE k \in rootLike : \A j \in rootLike : k <= j]

--------------------------------------------------------------------------
(* Properties of the exported document, checked under SpecExport.          *)

(* C1: for any non-empty bone set the second line of the exported document *)
(* begins with "ROOT " and never with "JOINT ".                            *)
C1_SecondLineIsRoot ==
    Exported => StartsWith(SecondLine, "ROOT ") /\ ~StartsWith(SecondLine, "JOINT ")

(* C2: the bones visited by the hierarchy traversal from the chosen root,  *)
(* in pre-order over bone children, are the bone set that buildBVHMotion   *)
(* iterates: same length, same order.                                      *)
C2_MotionOrderIsHierarchyOrder ==
    Exported => PreOrder(models, rootBone(models, boneSet)) = boneSet

(* The text that follows the "Frame Time" line: what buildBVHMotion gave. *)
MotionText ==
    LET mark == "Frame Time: 0.033333\n"
    IN SubSeq(offered.data, IndexOf(offered.data, mark) + Len(mark), Len(offered.data))

IsDigits(s) == Len(s) > 0 /\ \A i \in 1..Len(s) : IndexOf("0123456789", At(s, i)) # 0

(* A number with exactly six digits after the point, in fixed notation. *)
IsFixed6(t) ==
    LET u == IF StartsWith(t, "-") THEN SubSeq(t, 2, Len(t)) ELSE t
    IN /\ Len(u) >= 8
       /\ IsDigits(SubSeq(u, 1, Len(u) - 7))
       /\ At(u, Len(u) - 6) = "."
       /\ IsDigits(SubSeq(u, Len(u) - 5, Len(u)))

(* C3: for a bone set of N >= 1 bones buildBVHMotion returns one line of   *)
(* exactly 6 * N tokens separated by single spaces, three position values  *)
(* then three rotation values per bone in bone-set order, with no white    *)
(* space before the one newline that ends it.                              *)
C3_MotionLine ==
    Exported =>
        LET text == MotionText
            line == SubSeq(text, 1, Len(text) - 1)
            tokens == SplitOn(line, " ")
        IN /\ Len(text) >= 2
           /\ At(text, Len(text)) = "\n"
           /\ IndexOf(line, "\n") = 0
           /\ ~IsWhiteSpace(At(line, Len(line)))
           /\ Len(tokens) = 6 * Len(boneSet)
           /\ \A k \in DOMAIN tokens : IsFixed6(tokens[k])
           /\ \A k \in DOMAIN boneSet : \A a \in 1..3 :
                /\ tokens[6 * (k - 1) + a] = toFixed(pose[boneSet[k]].position[a])
                /\ tokens[6 * (k - 1) + 3 + a] =
                        toFixed(eulerDegrees(pose[boneSet[k]].quaternion)[a])

C3_Witness ==
    /\ Exported
    /\ Len(boneSet) >= 2
    /\ \E k \in DOMAIN boneSet : pose[boneSet[k]].position[3] < 0

(* C4: a joint whose bone has no bone child holds exactly one End Site     *)
(* block, with the offset line "OFFSET 0.0 0.0 0.0"; a joint whose bone    *)
(* has a bone child holds none of its own; so there are as many End Site   *)
(* blocks as leaf bones in the serialized tree.                            *)
C4_EndSites ==
    Exported =>
        LET H == HierarchyLines
            HeaderAt == HeadersOf(H)
            root == ExpectedRoot
            order == PreOrder(models, root)
        IN /\ Len(HeaderAt) = Len(order)
           /\ \A k \in DOMAIN HeaderAt :
                LET open == HeaderAt[k] + 1
                    close == CloseOf(H, open)
                    inner == repeat(" ", IndentOf(H[HeaderAt[k]]) + 2)
                    own == {e \in (open + 1)..(close - 1) : H[e] = inner \o "End Site"}
                IN /\ close # 0
                   /\ Cardinality(own) = IF IsLeaf(models, order[k]) THEN 1 ELSE 0
                   /\ \A e \in own : /\ H[e + 1] = inner \o "{"
                                     /\ H[e + 2] = inner \o "  OFFSET 0.0 0.0 0.0"
                                     /\ H[e + 3] = inner \o "}"
           /\ Cardinality({e \in DOMAIN H : TextOf(H[e]) = "End Site"}) =
                Cardinality({b \in Reachable(models, root) : IsLeaf(models, b)})

(* A root with two leaf children. *)
C4_Witness ==
    /\ Exported
    /\ LET H == HierarchyLines
       IN /\ Len(HeadersOf(H)) = 3
          /\ Cardinality({e \in DOMAIN H : TextOf(H[e]) = "End Site"}) = 2

(* C6: the bone handed to buildBVHHierarchy as traversal root is the first *)
(* bone of the set with no parent or with a parent that is no bone, and    *)
(* the first bone of the set when it holds no such bone.                   *)
C6_RootChoice ==
    Exported =>
        LET root == ExpectedRoot
            lines == DocLines
        IN /\ rootBone(models, boneSet) = root
           /\ HeaderName(lines[2]) = jointLabel(models, root)
           /\ lines[4] = "  OFFSET " \o toFixed(pose[root].position[1])
                            \o " " \o toFixed(pose[root].position[2])
                            \o " " \o toFixed(pose[root].position[3])

(* The root is found behind a bone that has a bone parent. *)
C6_Witness ==
    /\ Exported
    /\ Len(boneSet) >= 2
    /\ isBone(models, parentOf(models, boneSet[1]))
    /\ ExpectedRoot # boneSet[1]
    /\ ~isBone(models, parentOf(models, ExpectedRoot))

(* C7: the joints emitted are exactly the bones reachable from the root by *)
(* bone-to-bone child links, in pre-order; a child that is no bone adds no *)
(* line; a joint's header and braces are indented two spaces per bone      *)
(* ancestor below the root, and every brace opened is closed at the same   *)
(* indentation.                                                            *)
C7_PreOrderAndIndent ==
    Exported =>
        LET H == HierarchyLines
            HeaderAt == HeadersOf(H)
            root == ExpectedRoot
            order == PreOrder(models, root)
            leaves == {b \in Reachable(models, root) : IsLeaf(models, b)}
            opens == {i \in DOMAIN H : TextOf(H[i]) = "{"}
            closes == {i \in DOMAIN H : TextOf(H[i]) = "}"}
        IN /\ Len(HeaderAt) = Len(order)
           /\ \A k \in DOMAIN HeaderAt :
                LET i == HeaderAt[k]
                    indent == repeat(" ", 2 * DepthOf(models, root, order[k]))
                IN /\ IndentOf(H[i]) = Len(indent)
                   /\ HeaderName(H[i]) = jointLabel(models, order[k])
                   /\ H[i + 1] = indent \o "{"
                   /\ CloseOf(H, i + 1) # 0
                   /\ H[CloseOf(H, i + 1)] = indent \o "}"
           /\ \A i \in opens : CloseOf(H, i) # 0
           /\ \A j \in closes : \E i \in opens : CloseOf(H, i) = j
           /\ Len(H) = 5 * Len(order) + 4 * Cardinality(leaves)

(* A reachable bone with a child that is no bone before a child that is. *)
C7_Witness ==
    /\ Exported
    /\ \E b \in Reachable(models, ExpectedRoot) :
         \E i, j \in 1..models[b[1]].n :
            /\ i < j
            /\ models[b[1]].parent[i] = b[2] /\ ~models[b[1]].isBone[i]
            /\ models[b[1]].parent[j] = b[2] /\ models[b[1]].isBone[j]

--------------------------------------------------------------------------
(* Properties of the running program, checked under Spec.                  *)

(* C5: exportToBVH called, by the b key or the save button, while the bone *)
(* set is empty returns without building a document: no file is offered,   *)
(* nothing is thrown, and the program state is unchanged.                  *)
C5_EmptyExportIsNoOp ==
    [][(boneDots = <<>> /\ (SaveBVHClick \/ keydown("b")))
        => /\ lastCall' = "return"
           /\ UNCHANGED <<models, pose, currentModel, boneDots, boneLines, selectedBone,
                          transformControls, modelSelect, pending, nLoads, nDrags, scene,
                          offered, errors>>]_vars

C5_Witness == lastCall = "return" /\ boneDots = <<>> /\ offered = Null

(* C8: two calls of exportToBVH in a row, with nothing changed between     *)
(* them, offer the same text; an export leaves the bone set, the bone tree *)
(* and every transform as they were.                                       *)
C8_RepeatedExport ==
    [][/\ lastCall' = "download again" => offered' = offered
       /\ lastCall' \in {"download", "download again"} =>
            /\ offered'.download = "animation.bvh"
            /\ UNCHANGED <<models, pose, boneDots, boneLines, currentModel>>]_vars

C8_Witness ==
    /\ lastCall = "download again"
    /\ Exported
    /\ Len(boneSet) >= 2

(* C9: selectedBone is null or the bone of a marker in boneDots, so the    *)
(* lookup of the selected bone's marker in selectBone always succeeds.     *)
C9_SelectedBoneHasMarker ==
    selectedBone = Null \/ \E k \in DOMAIN boneDots : boneDots[k].bone = selectedBone

(* C10: under every interleaving of loadModel calls and load callbacks the *)
(* bone set read from boneDots holds only bones of the model in            *)
(* currentModel.                                                           *)
C10_DotsOfCurrentModel ==
    \A k \in DOMAIN boneDots : boneDots[k].bone[1] = currentModel

====
